---- MODULE Spec2Model ----
(***************************************************************************)
(* tidesdb-rs: the Rust binding (src/src/tidesdb.rs, error.rs, ffi.rs)     *)
(* over the TidesDB storage engine.  The binding's methods are modelled    *)
(* from their code; the engine functions they call (tidesdb_*, declared in *)
(* src/src/ffi.rs, compiled from tidesdb/src/*.c by build.rs) are modelled *)
(* from the specification's description of the engine.                     *)
(***************************************************************************)
EXTENDS Integers, Sequences, FiniteSets, TLC

(* ------------------------------ bounds --------------------------------- *)
\* transaction handles ever begun in one run
MaxTxns == 3
\* transaction handles open at the same time
MaxLive == 2
\* writes one transaction issues
MaxWrites == 2
\* transactions begun, and writes one transaction issues, where savepoints are used
SavepointTxns == 2
SavepointWrites == 3
\* writes one transaction issues where commits race, and where ttls are used
ConflictWrites == 1
LifecycleWrites == 1
IsolationTxns == 3
FamiliesTxns == 2
CatalogTxns == 2
PutTxns == 1
CloseTxns == 2
CloseWrites == 1
PutWrites == 2
CatalogWrites == 1
FamiliesWrites == 2
IsolationWrites == 2
TtlWrites == 1
\* clock ticks in one run
MaxTime == 2
\* status codes range over -MaxCode .. MaxCode where conversions are applied
MaxCode == 30
\* width of the ttl integers (the code has 64; u64 -> i64 wraps the same way)
TtlBits == 3

(* --------------------- ffi.rs: status codes, enums ---------------------- *)
TDB_SUCCESS == 0
TDB_ERR_MEMORY == -1
TDB_ERR_INVALID_ARGS == -2
TDB_ERR_NOT_FOUND == -3
TDB_ERR_IO == -4
TDB_ERR_CORRUPTION == -5
TDB_ERR_EXISTS == -6
TDB_ERR_CONFLICT == -7
TDB_ERR_TOO_LARGE == -8
TDB_ERR_MEMORY_LIMIT == -9
TDB_ERR_INVALID_DB == -10
TDB_ERR_UNKNOWN == -11

Codes == TDB_ERR_UNKNOWN .. TDB_SUCCESS

TDB_ISOLATION_READ_UNCOMMITTED == 0
TDB_ISOLATION_READ_COMMITTED == 1
TDB_ISOLATION_REPEATABLE_READ == 2
TDB_ISOLATION_SNAPSHOT == 3
TDB_ISOLATION_SERIALIZABLE == 4

IsolationLevel == TDB_ISOLATION_READ_UNCOMMITTED .. TDB_ISOLATION_SERIALIZABLE

TDB_COMPRESSION_NONE == 0
TDB_COMPRESSION_LZ4 == 4

(* ------------------------------ inputs --------------------------------- *)
Txns == 1 .. MaxTxns
CFNames == {"a", "b"}
Keys == {"k1", "k2"}
Values == {"v1", "v2"}
\* a savepoint name with an interior NUL byte: CString::new refuses it
NulName == "s\\0"
SavepointNames == {"s1", "s2", NulName}
\* the u64 ttl arguments tried: 0, small ones, and the first that wraps
U64Max == 2 ^ TtlBits - 1
I64Max == 2 ^ (TtlBits - 1) - 1
TtlInputs == {0, 1, I64Max + 1}

\* not a value: a deletion marker in a record, Ok(None) in a result
TOMBSTONE == "<tombstone>"
NONE == "<none>"
NoName == "<no name>"

(* ------------------------------- state --------------------------------- *)
VARIABLES
    \* engine (modelled from the specification)
    cfs,        \* names of the column families that exist
    config,     \* per column family: the configuration it was created with
    mem,        \* per column family: records of the active memtable
    l0,         \* per column family: records of the level-0 table files
    l1,         \* per column family: records of level 1 (compaction output)
    seq,        \* the global commit sequence
    now,        \* the wall clock, in seconds
    etxn,       \* per handle: the engine transaction
    freed,      \* per handle: how many times tidesdb_txn_free was called on it
    history,    \* every record version ever committed (never collected)
    closed,     \* how many times tidesdb_close was called on the database
    \* binding (src/src/tidesdb.rs)
    handle,     \* per handle: the Transaction struct and whether a caller owns it
    nextTxn,    \* the next handle tidesdb_txn_begin_with_isolation hands out
    last        \* the last call of the binding and what it returned

engineVars == <<cfs, config, mem, l0, l1, seq, now, etxn, freed, history, closed>>
\* the engine's state as one value, and the step that installs one
Engine ==
    [cfs |-> cfs, config |-> config, mem |-> mem, l0 |-> l0, l1 |-> l1, seq |-> seq, now |-> now,
     etxn |-> etxn, freed |-> freed, history |-> history, closed |-> closed]
SetEngine(E) ==
    /\ cfs' = E.cfs /\ config' = E.config /\ mem' = E.mem /\ l0' = E.l0 /\ l1' = E.l1 /\ seq' = E.seq
    /\ now' = E.now /\ etxn' = E.etxn /\ freed' = E.freed /\ history' = E.history
    /\ closed' = E.closed
vars ==
    <<cfs, config, mem, l0, l1, seq, now, etxn, freed, history, closed, handle, nextTxn,
      last>>

(* --------------------------- error.rs ---------------------------------- *)
\* from_code with the arm of -7 copied from the arm of -6
from_code_conflict_as_exists(code) ==
    CASE code = 0 -> "panic"
      [] code = -1 -> "Memory"
      [] code = -2 -> "InvalidArgs"
      [] code = -3 -> "NotFound"
      [] code = -4 -> "Io"
      [] code = -5 -> "Corruption"
      [] code = -6 -> "Exists"
      [] code = -7 -> "Exists"
      [] code = -8 -> "TooLarge"
      [] code = -9 -> "MemoryLimit"
      [] code = -10 -> "InvalidDb"
      [] OTHER -> <<"Unknown", code>>

\* Error::from_code: the error kind, Unknown carrying the code; code 0 panics
from_code(code) ==
    CASE code = 0 -> "panic"
      [] code = -1 -> "Memory"
      [] code = -2 -> "InvalidArgs"
      [] code = -3 -> "NotFound"
      [] code = -4 -> "Io"
      [] code = -5 -> "Corruption"
      [] code = -6 -> "Exists"
      [] code = -7 -> "Conflict"
      [] code = -8 -> "TooLarge"
      [] code = -9 -> "MemoryLimit"
      [] code = -10 -> "InvalidDb"
      [] OTHER -> <<"Unknown", code>>

\* the Result<()> every method but get builds from the engine's status code
ResultOf(code) == IF code # TDB_SUCCESS THEN from_code(code) ELSE "Ok"

\* `ttl as i64` of put_with_ttl: two's complement reinterpretation
as_i64(ttl) == IF ttl > I64Max THEN ttl - 2 ^ TtlBits ELSE ttl

\* CString::new(name): fails on an interior NUL byte
CStringOk(name) == name # NulName

\* a call of the binding and what it returned; writes is the number of writes
\* the transaction had buffered when a call that ends it was made, and code
\* the status code handed to a conversion that is applied on its own
Call(op, t, cf, key, name, ret, val) ==
    [op |-> op, t |-> t, cf |-> cf, key |-> key, name |-> name, ret |-> ret, val |-> val,
     writes |-> 0, code |-> 0, names |-> {}, config |-> "<no config>", popped |-> 0]

\* get's Result with every status code but success taken for an error
get_result_without_not_found(code, value) ==
    IF code # TDB_SUCCESS THEN [ret |-> from_code(code), val |-> NONE]
    ELSE [ret |-> "Ok", val |-> value]

\* the Result of Transaction::get for the engine's status code and value
get_result(code, value) ==
    IF code = TDB_ERR_NOT_FOUND THEN [ret |-> "Ok", val |-> NONE]
    ELSE IF code # TDB_SUCCESS THEN [ret |-> from_code(code), val |-> NONE]
    ELSE [ret |-> "Ok", val |-> value]

(* ------------------- engine: records and the read path ------------------ *)
Max(S) == CHOOSE x \in S : \A y \in S : y <= x
Min(S) == CHOOSE x \in S : \A y \in S : x <= y

\* the engine transaction before tidesdb_txn_begin_with_isolation made it;
\* began is the clock's reading when it was begun
NoTxn ==
    [state |-> "none", iso |-> TDB_ISOLATION_READ_COMMITTED, snap |-> 0,
     ws |-> <<>>, sps |-> <<>>, reads |-> {}, issued |-> 0, began |-> 0]

\* the ttl recorded for a write issued without one (put, delete)
NoTtl == -1

\* what the caller asked the binding for: the method and its arguments
Api(op, key, val, ttl) == [op |-> op, key |-> key, val |-> val, ttl |-> ttl]
NoApi == Api("none", "", "", NoTtl)

\* a write-set entry; id numbers the transaction's writes in the order issued,
\* and api is the call of the binding that issued it (see Asked)
Entry(cf, key, val, ttl, id) ==
    [cf |-> cf, key |-> key, val |-> val, ttl |-> ttl, id |-> id, api |-> NoApi]

\* the record version commit writes for an entry at sequence s: the expiry is
\* stamped as an absolute time; ttl 0 (what put passes) stamps none.  by, api
\* and at tell which transaction wrote it, for which call of the binding, and
\* when it committed
Record(E, e, s, t) ==
    [key |-> e.key, val |-> e.val, seq |-> s, hasExp |-> e.ttl # 0,
     exp |-> IF e.ttl # 0 THEN E.now + e.ttl ELSE 0, by |-> t, api |-> e.api, at |-> E.now]

\* a version with a past expiry
Expired(E, r) == r.hasExp /\ r.exp < E.now

Newest(S) == CHOOSE r \in S : \A q \in S : q.seq <= r.seq

\* the versions of key with sequence <= snap in one set of records
Candidates(S, key, snap) == {r \in S : r.key = key /\ r.seq <= snap}

\* reads consult the memtable, then level 0, then level 1; the result is the
\* set holding the version found, or the empty set
Lookup(E, cf, key, snap) ==
    IF Candidates(E.mem[cf], key, snap) # {}
    THEN {Newest(Candidates(E.mem[cf], key, snap))}
    ELSE IF Candidates(E.l0[cf], key, snap) # {}
    THEN {Newest(Candidates(E.l0[cf], key, snap))}
    ELSE IF Candidates(E.l1[cf], key, snap) # {}
    THEN {Newest(Candidates(E.l1[cf], key, snap))}
    ELSE {}

\* Read-Uncommitted and Read-Committed read at the current sequence, the other
\* levels at the snapshot taken when the transaction began
ReadSnapshot(E, t) ==
    IF E.etxn[t].iso \in {TDB_ISOLATION_READ_UNCOMMITTED, TDB_ISOLATION_READ_COMMITTED}
    THEN E.seq ELSE E.etxn[t].snap

\* positions of the transaction's buffered writes to (cf, key)
OwnWrites(ws, cf, key) == {i \in 1 .. Len(ws) : ws[i].cf = cf /\ ws[i].key = key}

\* what a read finds: the transaction's own latest buffered write first, then
\* the visible version; NONE for a deletion, an expired version or no version
ReadValue(E, t, cf, key) ==
    IF OwnWrites(E.etxn[t].ws, cf, key) # {}
    THEN LET e == E.etxn[t].ws[Max(OwnWrites(E.etxn[t].ws, cf, key))]
         IN  IF e.val = TOMBSTONE THEN NONE ELSE e.val
    ELSE LET found == Lookup(E, cf, key, ReadSnapshot(E, t))
         IN  IF found = {} THEN NONE
             ELSE LET r == CHOOSE x \in found : TRUE
                  IN  IF r.val = TOMBSTONE \/ Expired(E, r) THEN NONE ELSE r.val

(* ----------------- engine: the transaction functions -------------------- *)
\* every engine function yields its status code and the engine's next state
Ret(code, E) == [code |-> code, eng |-> E]

tidesdb_txn_begin_with_isolation(E, isolation, t) ==
    Ret(TDB_SUCCESS,
        [E EXCEPT !.etxn[t] = [NoTxn EXCEPT !.state = "active", !.iso = isolation,
                                            !.snap = E.seq, !.began = E.now]])

\* buffers the write in the write set; nothing reaches the memtable
tidesdb_txn_put(E, t, cf, key, value, ttl) ==
    Ret(TDB_SUCCESS,
        [E EXCEPT !.etxn[t].ws = Append(@, Entry(cf, key, value, ttl, E.etxn[t].issued + 1)),
                  !.etxn[t].issued = @ + 1])

tidesdb_txn_delete(E, t, cf, key) ==
    Ret(TDB_SUCCESS,
        [E EXCEPT !.etxn[t].ws = Append(@, Entry(cf, key, TOMBSTONE, 0, E.etxn[t].issued + 1)),
                  !.etxn[t].issued = @ + 1])

\* the status code and the value of a read; a Serializable transaction
\* remembers what it read
tidesdb_txn_get(E, t, cf, key) ==
    [code |-> IF ReadValue(E, t, cf, key) = NONE THEN TDB_ERR_NOT_FOUND ELSE TDB_SUCCESS,
     value |-> ReadValue(E, t, cf, key),
     eng |-> IF E.etxn[t].iso = TDB_ISOLATION_SERIALIZABLE
             THEN [E EXCEPT !.etxn[t].reads = @ \cup {<<cf, key>>}]
             ELSE E]

\* the (cf, key) pairs a write set writes
WrittenKeys(ws) == {<<ws[i].cf, ws[i].key>> : i \in 1 .. Len(ws)}

\* the keys the isolation level checks at commit
CheckedKeys(tx) ==
    IF tx.iso = TDB_ISOLATION_SNAPSHOT THEN WrittenKeys(tx.ws)
    ELSE IF tx.iso = TDB_ISOLATION_SERIALIZABLE THEN WrittenKeys(tx.ws) \cup tx.reads
    ELSE {}

\* a checked key has a committed version newer than the snapshot
Conflict(E, t) ==
    \E ck \in CheckedKeys(E.etxn[t]) :
        \E r \in E.mem[ck[1]] \cup E.l0[ck[1]] \cup E.l1[ck[1]] :
            r.key = ck[2] /\ r.seq > E.etxn[t].snap

\* the records a commit at sequence s adds to column family cf: one per key,
\* the last write to the key
Applied(E, t, cf, s) ==
    {Record(E, E.etxn[t].ws[Max(OwnWrites(E.etxn[t].ws, cf, key))], s, t) :
        key \in {k \in Keys : OwnWrites(E.etxn[t].ws, cf, k) # {}}}

\* a transaction that has ended keeps its state and nothing else
Ended(state) == [NoTxn EXCEPT !.state = state]

\* validates per the isolation level, then applies the write set to the memtable
\* at one newly allocated sequence number; a conflict aborts the transaction
\* and discards its write set
tidesdb_txn_commit(E, t) ==
    IF Conflict(E, t)
    THEN Ret(TDB_ERR_CONFLICT, [E EXCEPT !.etxn[t] = Ended("aborted")])
    ELSE IF E.etxn[t].ws = <<>>
    THEN Ret(TDB_SUCCESS, [E EXCEPT !.etxn[t] = Ended("committed")])
    ELSE Ret(TDB_SUCCESS,
             [E EXCEPT !.seq = @ + 1,
                       !.mem = [cf \in CFNames |-> @[cf] \cup Applied(E, t, cf, E.seq + 1)],
                       !.history = [cf \in CFNames |-> @[cf] \cup Applied(E, t, cf, E.seq + 1)],
                       !.etxn[t] = Ended("committed")])

\* discards the write set
tidesdb_txn_rollback(E, t) == Ret(TDB_SUCCESS, [E EXCEPT !.etxn[t] = Ended("aborted")])

\* releases the handle; a transaction still active is aborted
tidesdb_txn_free(E, t) ==
    IF E.etxn[t].state = "active"
    THEN [E EXCEPT !.freed[t] = @ + 1, !.etxn[t] = Ended("aborted")]
    ELSE [E EXCEPT !.freed[t] = @ + 1]

(* ----------------------- engine: savepoints ----------------------------- *)
\* a savepoint: its name and the write-set length when it was created; `at` is
\* the number of writes the transaction had issued by then
Savepoint(name, tx) == [name |-> name, idx |-> Len(tx.ws), at |-> tx.issued]

SavepointNamesOf(sps) == {sps[i].name : i \in 1 .. Len(sps)}

\* the position of the savepoint called name
Position(sps, name) == CHOOSE i \in 1 .. Len(sps) : sps[i].name = name

\* names are unique on the active stack: a name already there is refused
tidesdb_txn_savepoint(E, t, name) ==
    IF name \in SavepointNamesOf(E.etxn[t].sps)
    THEN Ret(TDB_ERR_EXISTS, E)
    ELSE Ret(TDB_SUCCESS, [E EXCEPT !.etxn[t].sps = Append(@, Savepoint(name, E.etxn[t]))])

\* truncates the write set to the savepoint's length and pops the savepoints
\* created after it
tidesdb_txn_rollback_to_savepoint(E, t, name) ==
    IF name \notin SavepointNamesOf(E.etxn[t].sps)
    THEN Ret(TDB_ERR_NOT_FOUND, E)
    ELSE Ret(TDB_SUCCESS,
             [E EXCEPT !.etxn[t].ws =
                           SubSeq(@, 1, E.etxn[t].sps[Position(E.etxn[t].sps, name)].idx),
                       !.etxn[t].sps = SubSeq(@, 1, Position(E.etxn[t].sps, name))])

\* removes the marker only
tidesdb_txn_release_savepoint(E, t, name) ==
    IF name \notin SavepointNamesOf(E.etxn[t].sps)
    THEN Ret(TDB_ERR_NOT_FOUND, E)
    ELSE Ret(TDB_SUCCESS,
             [E EXCEPT !.etxn[t].sps =
                           SubSeq(@, 1, Position(E.etxn[t].sps, name) - 1)
                           \o SubSeq(@, Position(E.etxn[t].sps, name) + 1, Len(@))])

(* ------------------ engine: column families, flush, compaction ---------- *)
\* closes the database and releases what it owns
tidesdb_close(E) == Ret(TDB_SUCCESS, [E EXCEPT !.closed = @ + 1])

\* no configuration: the column family does not exist
NoConfig == "<no config>"

\* the configuration the engine hands out as default
tidesdb_default_column_family_config ==
    [write_buffer_size |-> 4, klog_value_threshold |-> 2,
     compression_algorithm |-> TDB_COMPRESSION_LZ4,
     enable_bloom_filter |-> 1, bloom_fpr |-> 1, sync_mode |-> 0,
     default_isolation_level |-> TDB_ISOLATION_READ_COMMITTED]

\* creates a column family with a copy of the configuration; fails if the name
\* exists
tidesdb_create_column_family(E, name, cf_config) ==
    IF name \in E.cfs THEN Ret(TDB_ERR_EXISTS, E)
    ELSE Ret(TDB_SUCCESS, [E EXCEPT !.cfs = @ \cup {name}, !.config[name] = cf_config])

\* the column families a transaction holds a reference to: those of its write
\* set and of the reads it tracks
References(E, t) ==
    {E.etxn[t].ws[i].cf : i \in 1 .. Len(E.etxn[t].ws)} \cup {p[1] : p \in E.etxn[t].reads}

\* drops an idle column family with all it holds; fails for an unknown name and
\* while an open transaction holds a reference (the specification names no
\* error kind for that; invalid-arguments stands for it)
tidesdb_drop_column_family(E, name) ==
    IF name \notin E.cfs THEN Ret(TDB_ERR_NOT_FOUND, E)
    ELSE IF \E t \in Txns : E.etxn[t].state = "active" /\ name \in References(E, t)
    THEN Ret(TDB_ERR_INVALID_ARGS, E)
    ELSE Ret(TDB_SUCCESS,
             [E EXCEPT !.cfs = @ \ {name}, !.config[name] = NoConfig,
                       !.mem[name] = {}, !.l0[name] = {}, !.l1[name] = {},
                       !.history[name] = {}])

\* the null pointer
NULL == "<null>"

\* the column family of that name, or the null pointer
tidesdb_get_column_family(E, name) == IF name \in E.cfs THEN name ELSE NULL

\* the names of the column families
tidesdb_list_column_families(E) == [code |-> TDB_SUCCESS, names |-> E.cfs]

\* the memtable becomes a level-0 table file
tidesdb_flush_memtable(E, cf) ==
    Ret(TDB_SUCCESS, [E EXCEPT !.l0[cf] = @ \cup E.mem[cf], !.mem[cf] = {}])

\* the oldest snapshot an open transaction holds (the current sequence if none)
OldestSnapshot(E) ==
    Min({E.etxn[t].snap : t \in {x \in Txns : E.etxn[x].state = "active"}} \cup {E.seq})

\* the merge keeps every version newer than the oldest open snapshot and, of the
\* versions at or below it, the newest per key, unless that one is a tombstone
\* or has expired
Merge(E, S) ==
    {r \in S : \/ r.seq > OldestSnapshot(E)
               \/ /\ r = Newest(Candidates(S, r.key, OldestSnapshot(E)))
                  /\ r.val # TOMBSTONE
                  /\ ~Expired(E, r)}

\* a merge that keeps the newest version per key and no other, whatever
\* snapshots are open
tidesdb_compact_ignoring_snapshots(E, cf) ==
    Ret(TDB_SUCCESS,
        [E EXCEPT !.l1[cf] = {r \in E.l0[cf] \cup E.l1[cf] :
                                 /\ r = Newest(Candidates(E.l0[cf] \cup E.l1[cf], r.key, E.seq))
                                 /\ r.val # TOMBSTONE
                                 /\ ~Expired(E, r)},
                  !.l0[cf] = {}])

\* merges level 0 into level 1
tidesdb_compact(E, cf) ==
    Ret(TDB_SUCCESS, [E EXCEPT !.l1[cf] = Merge(E, E.l0[cf] \cup E.l1[cf]), !.l0[cf] = {}])

(* ------------------- binding: src/src/tidesdb.rs ------------------------ *)
NoKey == "<no key>"
NoCf == "<no cf>"

\* notes on the write just buffered which call of the binding issued it
Asked(E, t, api) ==
    IF E.etxn[t].ws = <<>> THEN E ELSE [E EXCEPT !.etxn[t].ws[Len(E.etxn[t].ws)].api = api]

\* a Transaction: `committed` is the struct's field (inner is the handle's
\* number); state tells whether the caller holds it, and isolation is the
\* level the caller began it with
NoHandle == [state |-> "none", committed |-> FALSE, isolation |-> TDB_ISOLATION_READ_COMMITTED]
Gone(committed) == [NoHandle EXCEPT !.state = "gone", !.committed = committed]

Live(t) == handle[t].state = "live"

\* Drop for Transaction: the handle is freed unless `committed` is set (inner
\* is never null in a Transaction that was constructed)
drop(E, committed, t) == IF ~committed THEN tidesdb_txn_free(E, t) ELSE E

\* ColumnFamilyConfig::new and ColumnFamilyConfig::with_compression
ColumnFamilyConfig_new == tidesdb_default_column_family_config
with_compression(self, algorithm) == [self EXCEPT !.compression_algorithm = algorithm]

\* ColumnFamilyConfig::with_bloom_filter
with_bloom_filter(self, enabled, false_positive_rate) ==
    [self EXCEPT !.enable_bloom_filter = IF enabled THEN 1 ELSE 0,
                 !.bloom_fpr = false_positive_rate]

\* `ttl as usize`, on a target whose usize has the width of u64
as_usize(ttl) == ttl % (U64Max + 1)

\* ColumnFamilyConfig::with_ttl
with_ttl(self, ttl) == [self EXCEPT !.klog_value_threshold = as_usize(ttl)]

\* a step of building a configuration: the call and the ColumnFamilyConfig it
\* returned
Built(op, self) ==
    /\ last' = [Call(op, 0, NoCf, NoKey, NoName, "Ok", NONE) EXCEPT !.config = self]
    /\ UNCHANGED <<engineVars, handle, nextTxn>>

\* the calls that return a ColumnFamilyConfig
Builders == {"new", "with_compression", "with_bloom_filter", "with_ttl"}

\* the last call returned a ColumnFamilyConfig, on which a builder can be called
Building == last.op \in Builders

\* a call on the database that returns before the engine is reached
Refused(op, name, ret) ==
    /\ last' = Call(op, 0, name, NoKey, NoName, ret, NONE)
    /\ UNCHANGED <<engineVars, handle, nextTxn>>

\* create_column_family dropping the engine's status code
create_ignoring_code(name, cf_config) ==
    IF ~CStringOk(name) THEN Refused("create_column_family", name, "Nul")
    ELSE \E r \in {tidesdb_create_column_family(Engine, name, cf_config)} :
        /\ SetEngine(r.eng)
        /\ last' = Call("create_column_family", 0, name, NoKey, NoName, "Ok", NONE)
        /\ UNCHANGED <<handle, nextTxn>>

\* Database::create_column_family
create_column_family(name, cf_config) ==
    IF ~CStringOk(name) THEN Refused("create_column_family", name, "Nul")
    ELSE \E r \in {tidesdb_create_column_family(Engine, name, cf_config)} :
        /\ SetEngine(r.eng)
        /\ last' = Call("create_column_family", 0, name, NoKey, NoName, ResultOf(r.code), NONE)
        /\ UNCHANGED <<handle, nextTxn>>

\* get_column_family wrapping whatever pointer the engine returns
get_column_family_unchecked(name) ==
    IF ~CStringOk(name) THEN Refused("get_column_family", name, "Nul")
    ELSE \E cf_ptr \in {tidesdb_get_column_family(Engine, name)} :
        /\ last' = Call("get_column_family", 0, name, NoKey, NoName, "Ok", cf_ptr)
        /\ UNCHANGED <<engineVars, handle, nextTxn>>

\* Database::get_column_family
get_column_family(name) ==
    IF ~CStringOk(name) THEN Refused("get_column_family", name, "Nul")
    ELSE \E cf_ptr \in {tidesdb_get_column_family(Engine, name)} :
        /\ last' = IF cf_ptr = NULL
                   THEN Call("get_column_family", 0, name, NoKey, NoName, "NotFound", NONE)
                   ELSE Call("get_column_family", 0, name, NoKey, NoName, "Ok", cf_ptr)
        /\ UNCHANGED <<engineVars, handle, nextTxn>>

\* Database::list_column_families
list_column_families ==
    \E r \in {tidesdb_list_column_families(Engine)} :
        /\ last' = IF r.code # TDB_SUCCESS
                   THEN Call("list_column_families", 0, NoCf, NoKey, NoName, from_code(r.code), NONE)
                   ELSE [Call("list_column_families", 0, NoCf, NoKey, NoName, "Ok", NONE)
                            EXCEPT !.names = r.names]
        /\ UNCHANGED <<engineVars, handle, nextTxn>>

\* drop_column_family dropping the engine's status code
drop_ignoring_code(name) ==
    IF ~CStringOk(name) THEN Refused("drop_column_family", name, "Nul")
    ELSE \E r \in {tidesdb_drop_column_family(Engine, name)} :
        /\ SetEngine(r.eng)
        /\ last' = Call("drop_column_family", 0, name, NoKey, NoName, "Ok", NONE)
        /\ UNCHANGED <<handle, nextTxn>>

\* Database::drop_column_family
drop_column_family(name) ==
    IF ~CStringOk(name) THEN Refused("drop_column_family", name, "Nul")
    ELSE \E r \in {tidesdb_drop_column_family(Engine, name)} :
        /\ SetEngine(r.eng)
        /\ last' = Call("drop_column_family", 0, name, NoKey, NoName, ResultOf(r.code), NONE)
        /\ UNCHANGED <<handle, nextTxn>>

\* begin_transaction_with_isolation beginning at the default level
begin_ignoring_isolation(isolation) ==
    /\ nextTxn <= MaxTxns
    /\ Cardinality({t \in Txns : Live(t)}) < MaxLive
    /\ \E r \in {tidesdb_txn_begin_with_isolation(Engine, TDB_ISOLATION_READ_COMMITTED,
                                                  nextTxn)} :
        /\ SetEngine(r.eng)
        /\ handle' = IF r.code # TDB_SUCCESS THEN handle
                     ELSE [handle EXCEPT ![nextTxn] =
                               [state |-> "live", committed |-> FALSE, isolation |-> isolation]]
        /\ last' = Call("begin", nextTxn, NoCf, NoKey, NoName, ResultOf(r.code), NONE)
    /\ nextTxn' = nextTxn + 1

\* Database::begin_transaction_with_isolation
begin_transaction_with_isolation(isolation) ==
    /\ nextTxn <= MaxTxns
    /\ Cardinality({t \in Txns : Live(t)}) < MaxLive
    /\ \E r \in {tidesdb_txn_begin_with_isolation(Engine, isolation, nextTxn)} :
        /\ SetEngine(r.eng)
        /\ handle' = IF r.code # TDB_SUCCESS THEN handle
                     ELSE [handle EXCEPT ![nextTxn] =
                               [state |-> "live", committed |-> FALSE, isolation |-> isolation]]
        /\ last' = Call("begin", nextTxn, NoCf, NoKey, NoName, ResultOf(r.code), NONE)
    /\ nextTxn' = nextTxn + 1

\* Database::begin_transaction
begin_transaction == begin_transaction_with_isolation(TDB_ISOLATION_READ_COMMITTED)

\* put handing the engine the key's bytes as the value
put_value_from_key(t, cf, key, value) ==
    /\ Live(t) /\ cf \in cfs
    /\ \E r \in {tidesdb_txn_put(Engine, t, cf, key, key, 0)} :
        /\ \E e \in {Asked(r.eng, t, Api("put", key, value, NoTtl))} : SetEngine(e)
        /\ last' = Call("put", t, cf, key, NoName, ResultOf(r.code), NONE)
    /\ UNCHANGED <<handle, nextTxn>>

\* put handing the engine one and the same column family whatever the caller's
put_into_one_family(t, cf, key, value) ==
    /\ Live(t) /\ cf \in cfs
    /\ \E r \in {tidesdb_txn_put(Engine, t, CHOOSE f \in cfs : TRUE, key, value, 0)} :
        /\ \E e \in {Asked(r.eng, t, Api("put", key, value, NoTtl))} : SetEngine(e)
        /\ last' = Call("put", t, cf, key, NoName, ResultOf(r.code), NONE)
    /\ UNCHANGED <<handle, nextTxn>>

\* put that has the engine commit the write at once
put_committing_at_once(t, cf, key, value) ==
    /\ Live(t) /\ cf \in cfs
    /\ \E r \in {tidesdb_txn_put(Engine, t, cf, key, value, 0)} :
        /\ \E e \in {Asked(r.eng, t, Api("put", key, value, NoTtl))} :
               \E w \in {tidesdb_txn_commit(e, t)} : SetEngine(w.eng)
        /\ last' = Call("put", t, cf, key, NoName, ResultOf(r.code), NONE)
    /\ UNCHANGED <<handle, nextTxn>>

\* Transaction::put
put(t, cf, key, value) ==
    /\ Live(t) /\ cf \in cfs
    /\ \E r \in {tidesdb_txn_put(Engine, t, cf, key, value, 0)} :
        /\ \E e \in {Asked(r.eng, t, Api("put", key, value, NoTtl))} : SetEngine(e)
        /\ last' = Call("put", t, cf, key, NoName, ResultOf(r.code), NONE)
    /\ UNCHANGED <<handle, nextTxn>>

\* Transaction::put_with_ttl
put_with_ttl(t, cf, key, value, ttl) ==
    /\ Live(t) /\ cf \in cfs
    /\ \E r \in {tidesdb_txn_put(Engine, t, cf, key, value, as_i64(ttl))} :
        /\ \E e \in {Asked(r.eng, t, Api("put_with_ttl", key, value, ttl))} : SetEngine(e)
        /\ last' = Call("put_with_ttl", t, cf, key, NoName, ResultOf(r.code), NONE)
    /\ UNCHANGED <<handle, nextTxn>>

\* get without the case for TDB_ERR_NOT_FOUND
get_not_found_is_error(t, cf, key) ==
    /\ Live(t) /\ cf \in cfs
    /\ \E r \in {tidesdb_txn_get(Engine, t, cf, key)} :
        /\ SetEngine(r.eng)
        /\ last' = IF r.code # TDB_SUCCESS
                   THEN Call("get", t, cf, key, NoName, from_code(r.code), NONE)
                   ELSE Call("get", t, cf, key, NoName, "Ok", r.value)
    /\ UNCHANGED <<handle, nextTxn>>

\* Transaction::get
get(t, cf, key) ==
    /\ Live(t) /\ cf \in cfs
    /\ \E r \in {tidesdb_txn_get(Engine, t, cf, key)} :
        /\ SetEngine(r.eng)
        /\ last' = Call("get", t, cf, key, NoName, get_result(r.code, r.value).ret,
                        get_result(r.code, r.value).val)
    /\ UNCHANGED <<handle, nextTxn>>

\* delete written as a put of the empty value
delete_as_empty_put(t, cf, key) ==
    /\ Live(t) /\ cf \in cfs
    /\ \E r \in {tidesdb_txn_put(Engine, t, cf, key, "", 0)} :
        /\ \E e \in {Asked(r.eng, t, Api("delete", key, NONE, NoTtl))} : SetEngine(e)
        /\ last' = Call("delete", t, cf, key, NoName, ResultOf(r.code), NONE)
    /\ UNCHANGED <<handle, nextTxn>>

\* Transaction::delete
delete(t, cf, key) ==
    /\ Live(t) /\ cf \in cfs
    /\ \E r \in {tidesdb_txn_delete(Engine, t, cf, key)} :
        /\ \E e \in {Asked(r.eng, t, Api("delete", key, NONE, NoTtl))} : SetEngine(e)
        /\ last' = Call("delete", t, cf, key, NoName, ResultOf(r.code), NONE)
    /\ UNCHANGED <<handle, nextTxn>>

\* commit setting `committed` before it looks at the status code
commit_marking_before_check(t) ==
    /\ Live(t)
    /\ \E r \in {tidesdb_txn_commit(Engine, t)} :
        /\ \E e \in {drop(r.eng, TRUE, t)} : SetEngine(e)
        /\ handle' = [handle EXCEPT ![t] = Gone(TRUE)]
        /\ last' = [Call("commit", t, NoCf, NoKey, NoName, ResultOf(r.code), NONE)
                        EXCEPT !.writes = Len(etxn[t].ws)]
    /\ UNCHANGED nextTxn

\* commit borrowing the handle, which the caller keeps
commit_keeping_handle(t) ==
    /\ Live(t)
    /\ \E r \in {tidesdb_txn_commit(Engine, t)} :
        /\ SetEngine(r.eng)
        /\ handle' = [handle EXCEPT ![t].committed = r.code = TDB_SUCCESS]
        /\ last' = [Call("commit", t, NoCf, NoKey, NoName, ResultOf(r.code), NONE)
                        EXCEPT !.writes = Len(etxn[t].ws)]
    /\ UNCHANGED nextTxn

\* commit dropping the engine's status code
commit_ignoring_code(t) ==
    /\ Live(t)
    /\ \E r \in {tidesdb_txn_commit(Engine, t)} :
        /\ \E e \in {drop(r.eng, TRUE, t)} : SetEngine(e)
        /\ handle' = [handle EXCEPT ![t] = Gone(TRUE)]
        /\ last' = [Call("commit", t, NoCf, NoKey, NoName, "Ok", NONE)
                        EXCEPT !.writes = Len(etxn[t].ws)]
    /\ UNCHANGED nextTxn

\* Transaction::commit: takes the handle by value, so Drop runs when it returns;
\* `committed` is set only after a successful engine commit
commit(t) ==
    /\ Live(t)
    /\ \E r \in {tidesdb_txn_commit(Engine, t)} :
        /\ \E e \in {drop(r.eng, r.code = TDB_SUCCESS, t)} : SetEngine(e)
        /\ handle' = [handle EXCEPT ![t] = Gone(r.code = TDB_SUCCESS)]
        /\ last' = [Call("commit", t, NoCf, NoKey, NoName, ResultOf(r.code), NONE)
                        EXCEPT !.writes = Len(etxn[t].ws)]
    /\ UNCHANGED nextTxn

\* rollback calling the engine's commit
rollback_calls_commit(t) ==
    /\ Live(t)
    /\ \E r \in {tidesdb_txn_commit(Engine, t)} :
        /\ \E e \in {drop(r.eng, handle[t].committed, t)} : SetEngine(e)
        /\ handle' = [handle EXCEPT ![t] = Gone(handle[t].committed)]
        /\ last' = [Call("rollback", t, NoCf, NoKey, NoName, ResultOf(r.code), NONE)
                        EXCEPT !.writes = Len(etxn[t].ws)]
    /\ UNCHANGED nextTxn

\* Transaction::rollback: takes the handle by value; `committed` stays false
rollback(t) ==
    /\ Live(t)
    /\ \E r \in {tidesdb_txn_rollback(Engine, t)} :
        /\ \E e \in {drop(r.eng, handle[t].committed, t)} : SetEngine(e)
        /\ handle' = [handle EXCEPT ![t] = Gone(handle[t].committed)]
        /\ last' = [Call("rollback", t, NoCf, NoKey, NoName, ResultOf(r.code), NONE)
                        EXCEPT !.writes = Len(etxn[t].ws)]
    /\ UNCHANGED nextTxn

\* a Transaction going out of scope while the caller still owns it
drop_transaction(t) ==
    /\ Live(t)
    /\ \E e \in {drop(Engine, handle[t].committed, t)} : SetEngine(e)
    /\ handle' = [handle EXCEPT ![t] = Gone(handle[t].committed)]
    /\ last' = [Call("drop", t, NoCf, NoKey, NoName, "Ok", NONE)
                    EXCEPT !.writes = Len(etxn[t].ws)]
    /\ UNCHANGED nextTxn

\* Transaction::savepoint
savepoint(t, name) ==
    /\ Live(t)
    /\ IF ~CStringOk(name)
       THEN /\ last' = Call("savepoint", t, NoCf, NoKey, name, "Nul", NONE)
            /\ UNCHANGED engineVars
       ELSE \E r \in {tidesdb_txn_savepoint(Engine, t, name)} :
                /\ SetEngine(r.eng)
                /\ last' = Call("savepoint", t, NoCf, NoKey, name, ResultOf(r.code), NONE)
    /\ UNCHANGED <<handle, nextTxn>>

\* rollback_to_savepoint calling the engine's release
rollback_to_calls_release(t, name) ==
    /\ Live(t)
    /\ IF ~CStringOk(name)
       THEN /\ last' = Call("rollback_to_savepoint", t, NoCf, NoKey, name, "Nul", NONE)
            /\ UNCHANGED engineVars
       ELSE \E r \in {tidesdb_txn_release_savepoint(Engine, t, name)} :
                /\ SetEngine(r.eng)
                /\ last' = Call("rollback_to_savepoint", t, NoCf, NoKey, name,
                                ResultOf(r.code), NONE)
    /\ UNCHANGED <<handle, nextTxn>>

\* rollback_to_savepoint dropping the engine's status code
rollback_to_ignoring_code(t, name) ==
    /\ Live(t)
    /\ IF ~CStringOk(name)
       THEN /\ last' = Call("rollback_to_savepoint", t, NoCf, NoKey, name, "Nul", NONE)
            /\ UNCHANGED engineVars
       ELSE \E r \in {tidesdb_txn_rollback_to_savepoint(Engine, t, name)} :
                /\ SetEngine(r.eng)
                /\ last' = [Call("rollback_to_savepoint", t, NoCf, NoKey, name, "Ok", NONE)
                                EXCEPT !.popped = Len(etxn[t].sps) - Len(r.eng.etxn[t].sps)]
    /\ UNCHANGED <<handle, nextTxn>>

\* Transaction::rollback_to_savepoint; popped notes how many savepoints the
\* engine took off the stack
rollback_to_savepoint(t, name) ==
    /\ Live(t)
    /\ IF ~CStringOk(name)
       THEN /\ last' = Call("rollback_to_savepoint", t, NoCf, NoKey, name, "Nul", NONE)
            /\ UNCHANGED engineVars
       ELSE \E r \in {tidesdb_txn_rollback_to_savepoint(Engine, t, name)} :
                /\ SetEngine(r.eng)
                /\ last' = [Call("rollback_to_savepoint", t, NoCf, NoKey, name,
                                 ResultOf(r.code), NONE)
                                EXCEPT !.popped = Len(etxn[t].sps) - Len(r.eng.etxn[t].sps)]
    /\ UNCHANGED <<handle, nextTxn>>

\* release_savepoint calling the engine's rollback-to
release_calls_rollback_to(t, name) ==
    /\ Live(t)
    /\ IF ~CStringOk(name)
       THEN /\ last' = Call("release_savepoint", t, NoCf, NoKey, name, "Nul", NONE)
            /\ UNCHANGED engineVars
       ELSE \E r \in {tidesdb_txn_rollback_to_savepoint(Engine, t, name)} :
                /\ SetEngine(r.eng)
                /\ last' = Call("release_savepoint", t, NoCf, NoKey, name,
                                ResultOf(r.code), NONE)
    /\ UNCHANGED <<handle, nextTxn>>

\* release_savepoint dropping the engine's status code
release_ignoring_code(t, name) ==
    /\ Live(t)
    /\ IF ~CStringOk(name)
       THEN /\ last' = Call("release_savepoint", t, NoCf, NoKey, name, "Nul", NONE)
            /\ UNCHANGED engineVars
       ELSE \E r \in {tidesdb_txn_release_savepoint(Engine, t, name)} :
                /\ SetEngine(r.eng)
                /\ last' = Call("release_savepoint", t, NoCf, NoKey, name, "Ok", NONE)
    /\ UNCHANGED <<handle, nextTxn>>

\* Transaction::release_savepoint
release_savepoint(t, name) ==
    /\ Live(t)
    /\ IF ~CStringOk(name)
       THEN /\ last' = Call("release_savepoint", t, NoCf, NoKey, name, "Nul", NONE)
            /\ UNCHANGED engineVars
       ELSE \E r \in {tidesdb_txn_release_savepoint(Engine, t, name)} :
                /\ SetEngine(r.eng)
                /\ last' = Call("release_savepoint", t, NoCf, NoKey, name,
                                ResultOf(r.code), NONE)
    /\ UNCHANGED <<handle, nextTxn>>

\* ColumnFamily::flush
flush(cf) ==
    /\ cf \in cfs
    /\ \E r \in {tidesdb_flush_memtable(Engine, cf)} :
        /\ SetEngine(r.eng)
        /\ last' = Call("flush", 0, cf, NoKey, NoName, ResultOf(r.code), NONE)
    /\ UNCHANGED <<handle, nextTxn>>

\* ColumnFamily::compact
compact(cf) ==
    /\ cf \in cfs
    /\ \E r \in {tidesdb_compact(Engine, cf)} :
        /\ SetEngine(r.eng)
        /\ last' = Call("compact", 0, cf, NoKey, NoName, ResultOf(r.code), NONE)
    /\ UNCHANGED <<handle, nextTxn>>

\* the caller owns the Database: it was opened and has not been dropped
Open == closed = 0

\* Drop for Database; the pointer of a Database is never null
drop_database ==
    /\ Open
    /\ \E r \in {tidesdb_close(Engine)} : SetEngine(r.eng)
    /\ last' = Call("close", 0, NoCf, NoKey, NoName, "Ok", NONE)
    /\ UNCHANGED <<handle, nextTxn>>

\* what a call into an engine that was closed can come to: any status, or the
\* end of the process
Outcomes ==
    {"Ok", "crash"} \cup {from_code(code) : code \in TDB_ERR_INVALID_DB .. TDB_ERR_MEMORY}

\* Transaction::commit, Transaction::rollback and Drop for Transaction on a
\* handle whose Database was dropped: nothing ties a Transaction to its
\* Database, so the call is made, on memory the engine has released; unless
\* the process ends or the commit reports success, Drop then calls
\* tidesdb_txn_free
use_after_close(t, op) ==
    /\ Live(t) /\ ~Open
    /\ \E ret \in IF op = "drop" THEN {"Ok", "crash"} ELSE Outcomes :
        /\ handle' = [handle EXCEPT ![t] = Gone(op = "commit" /\ ret = "Ok")]
        /\ \E e \in {IF ret = "crash" \/ (op = "commit" /\ ret = "Ok")
                      THEN Engine ELSE [Engine EXCEPT !.freed[t] = @ + 1]} : SetEngine(e)
        /\ last' = Call(op, t, NoCf, NoKey, NoName, ret, NONE)
    /\ UNCHANGED nextTxn

\* a second passes on the wall clock
Tick ==
    /\ now < MaxTime
    /\ now' = now + 1
    /\ last' = Call("tick", 0, NoCf, NoKey, NoName, "Ok", NONE)
    /\ UNCHANGED <<cfs, config, mem, l0, l1, seq, etxn, freed, history, closed, handle,
                   nextTxn>>

(* --------------------------- specifications ----------------------------- *)
\* the state Database::open returns: no column family, no transaction
Init ==
    /\ cfs = {}
    /\ config = [cf \in CFNames |-> NoConfig]
    /\ mem = [cf \in CFNames |-> {}]
    /\ l0 = [cf \in CFNames |-> {}]
    /\ l1 = [cf \in CFNames |-> {}]
    /\ seq = 0
    /\ now = 0
    /\ etxn = [t \in Txns |-> NoTxn]
    /\ freed = [t \in Txns |-> 0]
    /\ history = [cf \in CFNames |-> {}]
    /\ closed = 0
    /\ handle = [t \in Txns |-> NoHandle]
    /\ nextTxn = 1
    /\ last = Call("open", 0, NoCf, NoKey, NoName, "Ok", NONE)

\* the transaction has issued fewer than n writes
Room(t, n) == etxn[t].issued < n

\* fewer than n transactions have been begun
Fewer(n) == nextTxn <= n

\* key-value traffic of concurrent Read-Committed and Repeatable-Read
\* transactions over one column family, with flush and compaction
NextStore ==
    \/ create_column_family("a", ColumnFamilyConfig_new)
    \/ begin_transaction
    \/ begin_transaction_with_isolation(TDB_ISOLATION_REPEATABLE_READ)
    \/ \E t \in Txns, v \in Values : Room(t, MaxWrites) /\ put(t, "a", "k1", v)
    \/ \E t \in Txns : Room(t, MaxWrites) /\ delete(t, "a", "k1")
    \/ \E t \in Txns, k \in Keys : get(t, "a", k)
    \/ \E t \in Txns : commit(t)
    \/ \E t \in Txns : rollback(t)
    \/ \E t \in Txns : drop_transaction(t)
    \/ flush("a")
    \/ compact("a")

SpecStore == Init /\ [][NextStore]_vars

\* transactions working with savepoints, one after the other
NextSavepoint ==
    \/ create_column_family("a", ColumnFamilyConfig_new)
    \/ Fewer(SavepointTxns) /\ (\A t \in Txns : ~Live(t)) /\ begin_transaction
    \/ \E t \in Txns, k \in Keys : Room(t, SavepointWrites) /\ put(t, "a", k, "v1")
    \/ \E t \in Txns : Room(t, SavepointWrites) /\ delete(t, "a", "k1")
    \/ \E t \in Txns, k \in Keys : get(t, "a", k)
    \/ \E t \in Txns, n \in SavepointNames : savepoint(t, n)
    \/ \E t \in Txns, n \in SavepointNames : rollback_to_savepoint(t, n)
    \/ \E t \in Txns, n \in SavepointNames : release_savepoint(t, n)
    \/ \E t \in Txns : commit(t)
    \/ \E t \in Txns : rollback(t)

SpecSavepoint == Init /\ [][NextSavepoint]_vars

\* Snapshot and Serializable transactions racing to commit
NextConflict ==
    \/ create_column_family("a", ColumnFamilyConfig_new)
    \/ \E i \in {TDB_ISOLATION_SNAPSHOT, TDB_ISOLATION_SERIALIZABLE} :
           begin_transaction_with_isolation(i)
    \/ \E t \in Txns, k \in Keys, v \in Values : Room(t, ConflictWrites) /\ put(t, "a", k, v)
    \/ \E t \in Txns : get(t, "a", "k1")
    \/ \E t \in Txns : commit(t)
    \/ flush("a")
    \/ compact("a")

SpecConflict == Init /\ [][NextConflict]_vars

\* writes with and without a ttl while the clock advances
NextTtl ==
    \/ create_column_family("a", ColumnFamilyConfig_new)
    \/ begin_transaction
    \/ begin_transaction_with_isolation(TDB_ISOLATION_REPEATABLE_READ)
    \/ \E t \in Txns : Room(t, TtlWrites) /\ put(t, "a", "k1", "v2")
    \/ \E t \in Txns, n \in TtlInputs : Room(t, TtlWrites) /\ put_with_ttl(t, "a", "k1", "v1", n)
    \/ \E t \in Txns : get(t, "a", "k1")
    \/ \E t \in Txns : commit(t)
    \/ flush("a")
    \/ compact("a")
    \/ Tick

SpecTtl == Init /\ [][NextTtl]_vars

\* the status codes an engine call may hand back
CodeInputs == -MaxCode .. MaxCode

\* Error::from_code applied to a status code that is not TDB_SUCCESS
error_from_code(code) ==
    /\ code # TDB_SUCCESS
    /\ last' = [Call("from_code", 0, NoCf, NoKey, NoName, from_code(code), NONE)
                    EXCEPT !.code = code]
    /\ UNCHANGED <<engineVars, handle, nextTxn>>

\* the part of Transaction::get after tidesdb_txn_get has returned code and value
get_returning(code, value) ==
    /\ last' = [Call("get", 0, NoCf, NoKey, NoName, get_result(code, value).ret,
                     get_result(code, value).val)
                    EXCEPT !.code = code, !.key = value]
    /\ UNCHANGED <<engineVars, handle, nextTxn>>

\* column families created, looked up, listed and dropped while transactions
\* write to them
CatalogNames == CFNames \cup {NulName}
ConfigInputs ==
    {with_compression(ColumnFamilyConfig_new, algorithm) :
        algorithm \in {TDB_COMPRESSION_NONE, TDB_COMPRESSION_LZ4}}

NextCatalog ==
    \/ \E name \in CatalogNames, cf_config \in ConfigInputs :
           create_column_family(name, cf_config)
    \/ \E name \in CatalogNames : get_column_family(name)
    \/ list_column_families
    \/ \E name \in CatalogNames : drop_column_family(name)
    \/ Fewer(CatalogTxns) /\ begin_transaction
    \/ \E t \in Txns, cf \in CFNames : Room(t, CatalogWrites) /\ put(t, cf, "k1", "v1")
    \/ \E t \in Txns, cf \in CFNames : get(t, cf, "k1")
    \/ \E t \in Txns : commit(t)
    \/ \E t \in Txns : rollback(t)
    \/ \E cf \in CFNames : flush(cf)

SpecCatalog == Init /\ [][NextCatalog]_vars

\* one key in two column families
NextFamilies ==
    \/ \E name \in CFNames : create_column_family(name, ColumnFamilyConfig_new)
    \/ Fewer(FamiliesTxns) /\ begin_transaction
    \/ \E t \in Txns, cf \in CFNames, v \in Values :
           Room(t, FamiliesWrites) /\ put(t, cf, "k1", v)
    \/ \E t \in Txns, cf \in CFNames : Room(t, FamiliesWrites) /\ delete(t, cf, "k1")
    \/ \E t \in Txns, cf \in CFNames : get(t, cf, "k1")
    \/ \E t \in Txns : commit(t)
    \/ \E cf \in CFNames : flush(cf)

SpecFamilies == Init /\ [][NextFamilies]_vars

\* readers and writers at each of the five isolation levels
NextIsolation ==
    \/ create_column_family("a", ColumnFamilyConfig_new)
    \/ \E isolation \in IsolationLevel :
           Fewer(IsolationTxns) /\ begin_transaction_with_isolation(isolation)
    \/ \E t \in Txns, key \in Keys : Room(t, IsolationWrites) /\ put(t, "a", key, "v1")
    \/ \E t \in Txns : Room(t, IsolationWrites) /\ delete(t, "a", "k1")
    \/ \E t \in Txns : get(t, "a", "k1")
    \/ \E t \in Txns : commit(t)
    \/ \E t \in Txns : rollback(t)

SpecIsolation == Init /\ [][NextIsolation]_vars

\* the life of transactions: every method, commits that fail, handles dropped
NextLifecycle ==
    \/ create_column_family("a", ColumnFamilyConfig_new)
    \/ begin_transaction
    \/ begin_transaction_with_isolation(TDB_ISOLATION_SNAPSHOT)
    \/ \E t \in Txns, v \in Values : Room(t, LifecycleWrites) /\ put(t, "a", "k1", v)
    \/ \E t \in Txns : Room(t, LifecycleWrites) /\ delete(t, "a", "k1")
    \/ \E t \in Txns : get(t, "a", "k1")
    \/ \E t \in Txns : savepoint(t, "s1")
    \/ \E t \in Txns : rollback_to_savepoint(t, "s1")
    \/ \E t \in Txns : release_savepoint(t, "s1")
    \/ \E t \in Txns : commit(t)
    \/ \E t \in Txns : rollback(t)
    \/ \E t \in Txns : drop_transaction(t)

SpecLifecycle == Init /\ [][NextLifecycle]_vars

\* transactions, and the database dropped before them
NextClose ==
    \/ Open /\ create_column_family("a", ColumnFamilyConfig_new)
    \/ Open /\ Fewer(CloseTxns) /\ begin_transaction
    \/ \E t \in Txns, v \in Values : Open /\ Room(t, CloseWrites) /\ put(t, "a", "k1", v)
    \/ \E t \in Txns : Open /\ get(t, "a", "k1")
    \/ \E t \in Txns : Open /\ commit(t)
    \/ \E t \in Txns : Open /\ rollback(t)
    \/ \E t \in Txns : Open /\ drop_transaction(t)
    \/ drop_database
    \/ \E t \in Txns, op \in {"commit", "rollback", "drop"} : use_after_close(t, op)

SpecClose == Init /\ [][NextClose]_vars

\* writes with every ttl of the unsigned range
AllTtls == 0 .. U64Max

NextPut ==
    \/ create_column_family("a", ColumnFamilyConfig_new)
    \/ Fewer(PutTxns) /\ begin_transaction
    \/ \E t \in Txns, key \in Keys : Room(t, PutWrites) /\ put(t, "a", key, "v1")
    \/ \E t \in Txns, key \in Keys, ttl \in AllTtls :
           Room(t, PutWrites) /\ put_with_ttl(t, "a", key, "v1", ttl)
    \/ \E t \in Txns : commit(t)

SpecPut == Init /\ [][NextPut]_vars

\* configurations built by chains of the builders
CompressionInputs == TDB_COMPRESSION_NONE .. TDB_COMPRESSION_LZ4
FprInputs == {1, 5}
ThresholdInputs == {0, 1, U64Max}

NextConfig ==
    \/ Built("new", ColumnFamilyConfig_new)
    \/ \E algorithm \in CompressionInputs :
           Building /\ Built("with_compression", with_compression(last.config, algorithm))
    \/ \E enabled \in BOOLEAN, false_positive_rate \in FprInputs :
           /\ Building
           /\ Built("with_bloom_filter",
                    with_bloom_filter(last.config, enabled, false_positive_rate))
    \/ \E ttl \in ThresholdInputs : Building /\ Built("with_ttl", with_ttl(last.config, ttl))

SpecConfig == Init /\ [][NextConfig]_vars

\* the conversions of status codes, applied to every code
NextCodes ==
    \/ \E code \in CodeInputs : error_from_code(code)
    \/ \E code \in CodeInputs, value \in Values : get_returning(code, value)

SpecCodes == Init /\ [][NextCodes]_vars

(* ------------------------------- claims --------------------------------- *)
\* the snapshot the caller's isolation level gives transaction t: the current
\* sequence under Read-Uncommitted and Read-Committed, else the sequence at begin
SnapshotOf(t) ==
    IF handle[t].isolation \in {TDB_ISOLATION_READ_UNCOMMITTED, TDB_ISOLATION_READ_COMMITTED}
    THEN seq ELSE etxn[t].snap

\* the versions committed for the writes callers made to key, at or before snap
CommittedTo(cf, key, snap) == {r \in history[cf] : r.api.key = key /\ r.seq <= snap}

\* the last step was a get of a key its transaction has no buffered write to
ReadOfCommitted ==
    /\ last.op = "get"
    /\ \A i \in 1 .. Len(etxn[last.t].ws) :
           ~(etxn[last.t].ws[i].cf = last.cf /\ etxn[last.t].ws[i].api.key = last.key)

\* the newest version the reader of the last step can see is r
NewestVisible(r) ==
    /\ r \in CommittedTo(last.cf, last.key, SnapshotOf(last.t))
    /\ \A q \in CommittedTo(last.cf, last.key, SnapshotOf(last.t)) : q.seq <= r.seq

\* C1: a get of a key whose last committed write, as of the reader's snapshot,
\* is put(cf, k, v) returns v (the claim's case: no later committed write at
\* all, reader begun after the commit), and a get of a key with no committed
\* write returns absent; the reader has no buffered write of its own to k
C1_CommittedPutIsRead ==
    ReadOfCommitted =>
        /\ \A r \in history[last.cf] :
               NewestVisible(r) /\ r.api.op = "put"
                   => last.ret = "Ok" /\ last.val = r.api.val
        /\ {r \in history[last.cf] : r.api.key = last.key} = {}
               => last.ret = "Ok" /\ last.val = NONE

\* a transaction begun after another's commit reads the value that one put,
\* from a table file
C1_Witness ==
    /\ ReadOfCommitted
    /\ last.val \in Values
    /\ \E r \in history[last.cf] :
           /\ NewestVisible(r) /\ r.api.op = "put" /\ r.api.val = last.val
           /\ r.by # last.t /\ r.seq <= etxn[last.t].snap
           /\ \A q \in history[last.cf] : q.seq <= r.seq
           /\ r \notin mem[last.cf]

\* C2: a get of a key whose last committed write, as of the reader's snapshot,
\* is delete(cf, k) returns absent, wherever the tombstone and the older
\* versions are: memtable, level 0, or merged by compaction
C2_CommittedDeleteIsAbsent ==
    ReadOfCommitted =>
        \A r \in history[last.cf] :
            NewestVisible(r) /\ r.api.op = "delete"
                => last.ret = "Ok" /\ last.val = NONE

\* a key that was put, then deleted, is read as absent after the tombstone
\* left the memtable and level 0
C2_Witness ==
    /\ ReadOfCommitted
    /\ last.val = NONE
    /\ \E r \in history[last.cf] :
           /\ NewestVisible(r) /\ r.api.op = "delete"
           /\ r \notin mem[last.cf] \cup l0[last.cf]
           /\ \E q \in history[last.cf] : q.api.key = last.key /\ q.api.op = "put" /\ q.seq < r.seq

\* every version held anywhere
Versions(cf) == mem[cf] \cup l0[cf] \cup l1[cf] \cup history[cf]

\* what the committed writes alone make of the key the last step read
CommittedValue ==
    IF \E r \in history[last.cf] : NewestVisible(r) /\ handle[r.by].committed
    THEN LET r == CHOOSE x \in history[last.cf] : NewestVisible(x)
         IN  IF r.api.op = "delete" THEN NONE ELSE r.api.val
    ELSE NONE

\* C3: no version is ever stored for a transaction whose handle did not report a
\* successful commit (rolled back, or dropped while active), and what a get
\* returns for a key its transaction did not write is what the writes of the
\* committed transactions alone give
C3_NoEffectWithoutCommit ==
    /\ \A cf \in CFNames : \A r \in Versions(cf) :
           handle[r.by].state = "gone" /\ handle[r.by].committed
    /\ ReadOfCommitted => last.ret = "Ok" /\ last.val = CommittedValue

\* a transaction holding a put of a new value for a key that has a committed
\* version was just rolled back or dropped while active
C3_Witness ==
    /\ last.op \in {"rollback", "drop"}
    /\ last.writes > 0
    /\ ~handle[last.t].committed
    /\ etxn[last.t].state = "aborted"
    /\ \E r \in history["a"] : r.api.key = "k1" /\ r.by # last.t

\* the step is transaction t's call op
Step(op, t) == Live(t) /\ last'.op = op /\ last'.t = t

\* the writes of a write set that were issued no later than the n-th
IssuedUpTo(ws, n) == SelectSeq(ws, LAMBDA e : e.id <= n)

\* the writes a commit of the write set makes visible: per key the one issued last
LastWrites(ws) ==
    {ws[i].api : i \in {j \in 1 .. Len(ws) :
                          \A m \in 1 .. Len(ws) :
                              ws[m].cf = ws[j].cf /\ ws[m].api.key = ws[j].api.key
                                  => ws[m].id <= ws[j].id}}

\* the step is a successful commit of t that makes visible the writes of its
\* write set, and nothing else
CommitAppliesWriteSet(t) ==
    /\ last'.ret = "Ok"
    /\ {r.api : r \in history'["a"] \ history["a"]} = LastWrites(etxn[t].ws)
    /\ \A r \in history'["a"] \ history["a"] : r.by = t /\ r \in mem'["a"]
    /\ history["a"] \subseteq history'["a"]

\* a step of rollback_to_savepoint(name) that succeeds keeps, in order, the
\* writes issued before savepoint(name) was created and no other
RollbackToKeepsEarlier ==
    \A t \in Txns, n \in SavepointNames :
        Step("rollback_to_savepoint", t) /\ last'.name = n /\ last'.ret = "Ok"
            => /\ n \in SavepointNamesOf(etxn[t].sps)
               /\ etxn'[t].ws =
                      IssuedUpTo(etxn[t].ws, etxn[t].sps[Position(etxn[t].sps, n)].at)

\* write sets hold their writes in the order issued
InIssueOrder ==
    \A t \in Txns : \A i, j \in 1 .. Len(etxn[t].ws) :
        i < j => etxn[t].ws[i].id < etxn[t].ws[j].id

\* C4: rollback_to_savepoint(name) discards exactly the writes issued after
\* savepoint(name) was created and keeps, in order, every write issued before
\* it, whatever savepoints were created and released in between; a commit
\* then makes visible exactly the writes left in the write set
C4_RollbackToDiscardsLater ==
    /\ []InIssueOrder
    /\ [][RollbackToKeepsEarlier]_vars
    /\ [][\A t \in Txns : Step("commit", t) => CommitAppliesWriteSet(t)]_vars

\* a rollback to the inner of two savepoints has discarded a write and kept one
C4_Witness ==
    /\ last.op = "rollback_to_savepoint" /\ last.ret = "Ok"
    /\ Len(etxn[last.t].sps) >= 2
    /\ etxn[last.t].sps[Len(etxn[last.t].sps)].name = last.name
    /\ Len(etxn[last.t].ws) >= 1
    /\ etxn[last.t].issued > etxn[last.t].ws[Len(etxn[last.t].ws)].id

\* the stack without the savepoint called name
Without(sps, name) == SelectSeq(sps, LAMBDA sp : sp.name # name)

\* C5: release_savepoint(name) removes the marker and nothing else, creating
\* a savepoint leaves the write set as it is, and commit makes visible the
\* write set whatever markers there are or were: release then commit gives
\* the state the same writes and commit give without the savepoint
C5_ReleaseOnlyRemovesMarker ==
    /\ [][\A t \in Txns :
              Step("release_savepoint", t) /\ last'.ret = "Ok"
                  => /\ etxn'[t].ws = etxn[t].ws
                     /\ etxn'[t].sps = Without(etxn[t].sps, last'.name)
                     /\ Len(etxn'[t].sps) = Len(etxn[t].sps) - 1
                     /\ <<mem, l0, l1, history, seq>>' = <<mem, l0, l1, history, seq>>]_vars
    /\ [][\A t \in Txns :
              Step("savepoint", t)
                  => /\ etxn'[t].ws = etxn[t].ws
                     /\ <<mem, l0, l1, history, seq>>' = <<mem, l0, l1, history, seq>>]_vars
    /\ [][\A t \in Txns :
              Step("commit", t)
                  => {r.api : r \in history'["a"] \ history["a"]} = LastWrites(etxn[t].ws)]_vars

\* a savepoint with writes before and after it was just released
C5_Witness ==
    /\ last.op = "release_savepoint" /\ last.ret = "Ok"
    /\ Len(etxn[last.t].ws) >= 2
    /\ etxn[last.t].sps # <<>>
    /\ etxn[last.t].sps[1].at >= 1

\* no name twice on a savepoint stack
UniqueNames ==
    \A t \in Txns : \A i, j \in 1 .. Len(etxn[t].sps) :
        i # j => etxn[t].sps[i].name # etxn[t].sps[j].name

\* C6: the savepoint stack of a transaction never holds a name twice, and
\* rollback_to_savepoint or release_savepoint of a name that is not on the
\* stack returns an error and changes neither the write set nor the stack
C6_UnknownSavepointFails ==
    /\ []UniqueNames
    /\ [][\A t \in Txns :
              /\ Step("rollback_to_savepoint", t) \/ Step("release_savepoint", t)
              /\ last'.name \notin SavepointNamesOf(etxn[t].sps)
              => /\ last'.ret # "Ok"
                 /\ etxn'[t].ws = etxn[t].ws
                 /\ etxn'[t].sps = etxn[t].sps]_vars

\* a name that is not on a non-empty stack was refused, with writes buffered
C6_Witness ==
    /\ last.op \in {"rollback_to_savepoint", "release_savepoint"}
    /\ last.ret = "NotFound"
    /\ etxn[last.t].sps # <<>>
    /\ etxn[last.t].ws # <<>>
    /\ etxn[last.t].issued > Len(etxn[last.t].ws)

\* the positions of transaction t's buffered writes to the key the last step read
OwnWritesRead ==
    {i \in 1 .. Len(etxn[last.t].ws) :
        etxn[last.t].ws[i].cf = last.cf /\ etxn[last.t].ws[i].api.key = last.key}

\* C9: a get returns the transaction's own latest buffered write to the key
\* (the value of a put, absent after a delete), where the write set is what
\* rollback_to_savepoint left of it, and only without such a write what the
\* committed versions give
C9_ReadYourWrites ==
    last.op = "get" =>
        /\ last.ret = "Ok"
        /\ \A i \in OwnWritesRead :
               (\A j \in OwnWritesRead : etxn[last.t].ws[j].id <= etxn[last.t].ws[i].id)
                   => last.val = IF etxn[last.t].ws[i].api.op = "delete" THEN NONE
                                 ELSE etxn[last.t].ws[i].api.val
        /\ OwnWritesRead = {} => last.val = CommittedValue

\* after a rollback to a savepoint removed its delete, the transaction reads
\* the value it put before the savepoint, not the committed deletion
C9_Witness ==
    /\ last.op = "get" /\ last.val = "v1"
    /\ OwnWritesRead # {}
    /\ etxn[last.t].issued > Len(etxn[last.t].ws)
    /\ etxn[last.t].sps # <<>>
    /\ \E r \in history[last.cf] : NewestVisible(r) /\ r.api.op = "delete"

\* the keys transaction t has buffered writes to
KeysWritten(t) == {etxn[t].ws[i].api.key : i \in 1 .. Len(etxn[t].ws)}

\* the versions committed since t began: the work of transactions concurrent
\* with t that committed before it
CommittedSince(t) == {r \in history["a"] : r.seq > etxn[t].snap}

\* C7: of two concurrent Snapshot or Serializable transactions that wrote the
\* same key and both call commit, the second to commit gets a conflict error
\* and leaves the committed state as it is, so the key keeps the value of the
\* one that committed; and a transaction commits successfully, its writes
\* becoming the newest versions, when no transaction concurrent with it
\* committed a write to a key it wrote or read
C7_OneOfTwoWritersCommits ==
    [][\A t \in Txns :
           /\ Step("commit", t)
           /\ handle[t].isolation \in {TDB_ISOLATION_SNAPSHOT, TDB_ISOLATION_SERIALIZABLE}
           /\ etxn[t].ws # <<>>
           => /\ (\E r \in CommittedSince(t) : r.api.key \in KeysWritten(t))
                  => /\ last'.ret = "Conflict"
                     /\ ~handle'[t].committed
                     /\ <<mem, l0, l1, history, seq>>' = <<mem, l0, l1, history, seq>>
              /\ (\A r \in CommittedSince(t) :
                      /\ r.api.key \notin KeysWritten(t)
                      /\ <<"a", r.api.key>> \notin etxn[t].reads)
                  => /\ CommitAppliesWriteSet(t)
                     /\ handle'[t].committed
                     /\ \A r \in history'["a"] \ history["a"] :
                            \A q \in history'["a"] : q.seq <= r.seq]_vars

\* the second of two concurrent writers of a key was refused with a conflict
\* and the key holds the write of the first
C7_Witness ==
    /\ last.op = "commit" /\ last.ret = "Conflict" /\ last.writes > 0
    /\ ~handle[last.t].committed
    /\ \E r \in history["a"] :
           /\ r.by # last.t /\ handle[r.by].committed
           /\ \A q \in history["a"] : q.api.key = r.api.key => q.seq <= r.seq
           /\ \E x \in Lookup(Engine, "a", r.api.key, seq) : x.val = r.api.val

\* the last step was a get by a Repeatable-Read transaction of a key it has no
\* buffered write to, and r is the version of the key that was committed when
\* the transaction began
RepeatableReadOf(r) ==
    /\ ReadOfCommitted
    /\ handle[last.t].isolation = TDB_ISOLATION_REPEATABLE_READ
    /\ r \in CommittedTo(last.cf, last.key, etxn[last.t].snap)
    /\ \A q \in CommittedTo(last.cf, last.key, etxn[last.t].snap) : q.seq <= r.seq

\* C8 as stated: a get by a Repeatable-Read transaction, of a key it has not
\* written, returns the value that was committed (and readable) when the
\* transaction began, whatever was committed since
C8_RepeatableReadKeepsValue ==
    \A r \in history["a"] :
        /\ RepeatableReadOf(r)
        /\ r.api.op \in {"put", "put_with_ttl"}
        /\ r.hasExp => r.exp >= etxn[last.t].began
        => last.ret = "Ok" /\ last.val = r.api.val

\* C8, amended: the get returns the value of the version that was committed
\* when the transaction began, whatever was committed since, or absent once
\* the expiry stamped on that version has passed; absent also when there was
\* no version
C8_RepeatableReadKeepsVersion ==
    /\ \A r \in history["a"] :
           RepeatableReadOf(r) /\ r.api.op \in {"put", "put_with_ttl"}
               => /\ last.ret = "Ok"
                  /\ last.val = IF r.hasExp /\ r.exp < now THEN NONE ELSE r.api.val
    /\ /\ ReadOfCommitted
       /\ handle[last.t].isolation = TDB_ISOLATION_REPEATABLE_READ
       /\ CommittedTo(last.cf, last.key, etxn[last.t].snap) = {}
       => last.ret = "Ok" /\ last.val = NONE

\* a Repeatable-Read transaction reads "v1" after another transaction
\* committed "v2" for the key
C8_Witness ==
    /\ last.val = "v1"
    /\ \E r \in history["a"] :
           /\ RepeatableReadOf(r) /\ r.api.val = "v1"
           /\ \E q \in history["a"] :
                  q.api.key = last.key /\ q.api.val = "v2" /\ q.seq > etxn[last.t].snap

\* C10 as stated, for n below 2^63: a get whose newest visible version was
\* written by put_with_ttl(.., n) returns the value while no time has passed
\* since the commit and absent once more than n seconds have passed; a get
\* whose newest visible version was written by put returns the value
C10_TtlExpiresPutDoesNot ==
    ReadOfCommitted =>
        \A r \in history[last.cf] :
            NewestVisible(r) =>
                /\ r.api.op = "put_with_ttl" /\ r.api.ttl <= I64Max /\ now = r.at
                       => last.val = r.api.val
                /\ r.api.op = "put_with_ttl" /\ r.api.ttl <= I64Max /\ now > r.at + r.api.ttl
                       => last.val = NONE
                /\ r.api.op = "put" => last.val = r.api.val

\* the ten kinds of the taxonomy, by status code
KindOf ==
    [c \in -10 .. -1 |->
        CASE c = TDB_ERR_MEMORY -> "Memory"
          [] c = TDB_ERR_INVALID_ARGS -> "InvalidArgs"
          [] c = TDB_ERR_NOT_FOUND -> "NotFound"
          [] c = TDB_ERR_IO -> "Io"
          [] c = TDB_ERR_CORRUPTION -> "Corruption"
          [] c = TDB_ERR_EXISTS -> "Exists"
          [] c = TDB_ERR_CONFLICT -> "Conflict"
          [] c = TDB_ERR_TOO_LARGE -> "TooLarge"
          [] c = TDB_ERR_MEMORY_LIMIT -> "MemoryLimit"
          [] c = TDB_ERR_INVALID_DB -> "InvalidDb"]

\* C15: Transaction::get turns the engine's not-found into Ok(None), success
\* into Ok(Some(value)) with the engine's value, and every other status code
\* into the Err of that code; no other outcome exists
C15_GetAbsentIsOkNone ==
    last.op = "get" /\ last.t = 0 =>
        /\ last.code = TDB_ERR_NOT_FOUND => last.ret = "Ok" /\ last.val = NONE
        /\ last.code = TDB_SUCCESS => last.ret = "Ok" /\ last.val = last.key
        /\ last.code \notin {TDB_SUCCESS, TDB_ERR_NOT_FOUND}
               => last.ret = from_code(last.code) /\ last.val = NONE
        /\ last.code \in -10 .. -1 \ {TDB_ERR_NOT_FOUND} => last.ret = KindOf[last.code]

\* the engine reported not-found and get returned Ok(None)
C15_Witness ==
    /\ last.op = "get" /\ last.t = 0
    /\ last.code = TDB_ERR_NOT_FOUND
    /\ last.ret = "Ok" /\ last.val = NONE

\* C16: Error::from_code maps the codes -1 .. -10 to the ten kinds of the
\* taxonomy, one each and pairwise different, and every other code c but 0 to
\* Unknown(c)
C16_ErrorKindsDistinct ==
    /\ \A c \in -10 .. -1 : from_code(c) = KindOf[c]
    /\ \A c, d \in -10 .. -1 : c # d => from_code(c) # from_code(d)
    /\ last.op = "from_code" =>
           /\ last.code \in -10 .. -1 => last.ret = KindOf[last.code]
           /\ last.code \notin -10 .. 0 => last.ret = <<"Unknown", last.code>>

\* a code outside the taxonomy was converted
C16_Witness ==
    /\ last.op = "from_code"
    /\ last.code = TDB_ERR_UNKNOWN
    /\ last.ret = <<"Unknown", TDB_ERR_UNKNOWN>>

\* the committed versions and where they are
Stores == <<cfs, mem, l0, l1, history, seq>>

\* C18: a commit that the engine refuses returns an error and applies nothing:
\* every column family holds the versions it held, only the committer is
\* aborted, and every other open transaction is as it was, still active
C18_FailedCommitAppliesNothing ==
    [][\A t \in Txns :
           Step("commit", t) /\ (last'.ret # "Ok" \/ etxn'[t].state = "aborted")
               => /\ last'.ret # "Ok"
                  /\ ~handle'[t].committed
                  /\ etxn'[t].state = "aborted"
                  /\ Stores' = Stores
                  /\ \A u \in Txns \ {t} :
                         /\ etxn'[u] = etxn[u] /\ handle'[u] = handle[u]
                         /\ Live(u) => etxn'[u].state = "active"]_vars

\* a commit with buffered writes was refused while another transaction with
\* buffered writes is open
C18_Witness ==
    /\ last.op = "commit" /\ last.ret = "Conflict" /\ last.writes > 0
    /\ etxn[last.t].state = "aborted"
    /\ \E u \in Txns \ {last.t} : Live(u) /\ etxn[u].state = "active" /\ etxn[u].ws # <<>>

\* C19 as stated: a handle the caller no longer holds has been released to the
\* engine (tidesdb_txn_free) exactly once, and a handle the caller holds not yet
C19_HandleFreedExactlyOnce ==
    \A t \in Txns :
        /\ handle[t].state = "gone" => freed[t] = 1
        /\ handle[t].state # "gone" => freed[t] = 0

\* the calls that are issued to the engine on a transaction's handle
TxnOps ==
    {"put", "put_with_ttl", "get", "delete", "savepoint", "rollback_to_savepoint",
     "release_savepoint", "commit", "rollback"}

\* C20: an engine transaction is active, committed or aborted; committed and
\* aborted are final; and every put, get, delete, savepoint,
\* rollback_to_savepoint, release_savepoint, commit and rollback is issued on a
\* transaction that is active, so none follows a commit or a rollback, failed
\* or not
C20_EndedIsTerminal ==
    /\ [](\A t \in Txns : etxn[t].state \in {"none", "active", "committed", "aborted"})
    /\ [][\A t \in Txns :
              etxn[t].state \in {"committed", "aborted"} => etxn'[t].state = etxn[t].state]_vars
    /\ [][\A t \in Txns :
              last'.t = t /\ last'.op \in TxnOps
                  => etxn[t].state = "active" /\ handle[t].state = "live"]_vars
    /\ [](\A t \in Txns : handle[t].state = "live" => etxn[t].state = "active")

\* a commit failed and its handle is gone, while another transaction is open
C20_Witness ==
    /\ last.op = "commit" /\ last.ret = "Conflict"
    /\ handle[last.t].state = "gone"
    /\ etxn[last.t].state = "aborted"
    /\ \E u \in Txns : Live(u)

\* the versions a step added to a column family
Added(cf) == history'[cf] \ history[cf]

OwnCalls(t, cf, key) ==
    {i \in 1 .. Len(etxn[t].ws) : etxn[t].ws[i].cf = cf /\ etxn[t].ws[i].api.key = key}

\* what t reads for key in cf by the calls made on cf alone: its own latest
\* buffered call, else the newest version committed to cf
FamilyValue(t, cf, key) ==
    IF OwnCalls(t, cf, key) # {}
    THEN LET e == etxn[t].ws[Max(OwnCalls(t, cf, key))]
         IN  IF e.api.op = "delete" THEN NONE ELSE e.api.val
    ELSE LET found == {r \in history[cf] : r.api.key = key}
         IN  IF found = {} THEN NONE
             ELSE LET r == CHOOSE x \in found : \A q \in found : q.seq <= x.seq
                  IN  IF r.api.op = "delete" THEN NONE ELSE r.api.val

\* everything held of one column family: stored versions and buffered writes
Family(cf) ==
    <<mem[cf], l0[cf], l1[cf], history[cf],
      [t \in Txns |-> SelectSeq(etxn[t].ws, LAMBDA e : e.cf = cf)]>>

\* C11: a get on a column family returns what the calls made on that column
\* family give (so the same key written with two values into two column
\* families and committed reads as each family's own value), and a put or a
\* delete on one column family adds a write to that family's part of the write
\* set and leaves everything held of every other column family, and so every
\* get on it, as it was
C11_FamiliesAreIndependent ==
    /\ [](last.op = "get" => last.ret = "Ok" /\ last.val = FamilyValue(last.t, last.cf, last.key))
    /\ [][\A t \in Txns :
              Step("put", t) \/ Step("delete", t) =>
                  /\ etxn'[t].ws # <<>>
                  /\ etxn'[t].ws[Len(etxn'[t].ws)].cf = last'.cf
                  /\ \A cf \in CFNames \ {last'.cf} :
                         /\ Family(cf)' = Family(cf)
                         /\ \A u \in Txns, key \in Keys :
                                FamilyValue(u, cf, key)' = FamilyValue(u, cf, key)]_vars

\* one transaction committed two values for one key in two column families and
\* a later one reads the second family's value
C11_Witness ==
    /\ last.op = "get" /\ last.cf = "b" /\ last.val = "v2"
    /\ etxn[last.t].ws = <<>>
    /\ \E ra \in history["a"], rb \in history["b"] :
           /\ ra.by = rb.by /\ ra.seq = rb.seq /\ ra.by # last.t
           /\ ra.api = Api("put", last.key, "v1", NoTtl)
           /\ rb.api = Api("put", last.key, "v2", NoTtl)
           /\ \A q \in history["a"] \cup history["b"] : q.seq <= ra.seq

\* the step is a call of op on the database, for the column family name
DbStep(op, name) == last'.op = op /\ last'.cf = name

\* everything held of the column family name, and its configuration
Held(name) == <<name \in cfs, config[name], mem[name], l0[name], l1[name], history[name]>>

\* a create_column_family of an existing name fails with the already-exists
\* error and changes nothing
CreateOfExistingFails(name) ==
    DbStep("create_column_family", name) /\ name \in cfs
        => last'.ret = "Exists" /\ engineVars' = engineVars

NamesFollowCreateAndDrop ==
    \A name \in CatalogNames :
        /\ DbStep("create_column_family", name) /\ last'.ret = "Ok" => cfs' = cfs \cup {name}
        /\ DbStep("drop_column_family", name) /\ last'.ret = "Ok"
               => name \in cfs /\ cfs' = cfs \ {name}
        /\ (name \in cfs) # (name \in cfs')
               => /\ last'.ret = "Ok" /\ last'.cf = name
                  /\ last'.op = IF name \in cfs THEN "drop_column_family"
                                ELSE "create_column_family"

\* list_column_families returns exactly the names that exist
ListReturnsNames ==
    last.op = "list_column_families" => last.ret = "Ok" /\ last.names = cfs

\* C13 as stated: the names listed are those created and not since dropped,
\* get_column_family succeeds for exactly those and returns the not-found error
\* for every other name
C13_GetNotFoundForEveryOtherName ==
    /\ [][NamesFollowCreateAndDrop]_vars
    /\ [](ListReturnsNames)
    /\ [](last.op = "get_column_family" =>
              IF last.cf \in cfs THEN last.ret = "Ok" /\ last.val = last.cf
              ELSE last.ret = "NotFound")

\* C13: the names listed are those created and not since successfully dropped;
\* get_column_family succeeds for exactly those, returns the not-found error
\* for every other name without a NUL byte, and the Nul error for a name with
\* one
C13_ListAndGetFollowCreateAndDrop ==
    /\ [][NamesFollowCreateAndDrop]_vars
    /\ [](ListReturnsNames)
    /\ [](last.op = "get_column_family" =>
              IF last.cf \in cfs THEN last.ret = "Ok" /\ last.val = last.cf
              ELSE IF CStringOk(last.cf) THEN last.ret = "NotFound"
              ELSE last.ret = "Nul")

\* get_column_family returns not-found for a column family that held a
\* committed write and was dropped, while the other one exists
C13_Witness ==
    /\ last.op = "get_column_family" /\ last.cf = "a" /\ last.ret = "NotFound"
    /\ cfs = {"b"}
    /\ seq > 0 /\ history["b"] = {}

\* an open transaction of the caller's holds a buffered write to the column family
Busy(name) ==
    \E t \in Txns : Live(t) /\ \E i \in 1 .. Len(etxn[t].ws) : etxn[t].ws[i].cf = name

\* C14: a drop_column_family of a column family to which an open transaction
\* holds a buffered write fails and leaves the column family, its data and
\* everything else as it was; a drop_column_family that succeeds is of an
\* existing column family no open transaction has written to, and removes it
C14_DropFailsWhileReferenced ==
    [][\A name \in CatalogNames :
           /\ DbStep("drop_column_family", name) /\ name \in cfs /\ Busy(name)
                  => /\ last'.ret # "Ok"
                     /\ engineVars' = engineVars /\ handle' = handle
           /\ DbStep("drop_column_family", name) /\ last'.ret = "Ok"
                  => /\ name \in cfs /\ ~Busy(name)
                     /\ name \notin cfs'
                     /\ \A other \in CFNames \ {name} : Held(other)' = Held(other)]_vars

\* drop_column_family was refused for a column family with committed data to
\* which an open transaction holds a write
C14_Witness ==
    /\ last.op = "drop_column_family" /\ last.ret # "Ok"
    /\ last.cf \in cfs /\ Busy(last.cf)
    /\ history[last.cf] # {}

\* the fields of a column family configuration
ConfigFields == DOMAIN tidesdb_default_column_family_config

\* the step is a call of the builder op that left every field outside fields
\* at its previous value
Keeps(op, fields) ==
    last'.op = op /\ Building
        => \A f \in ConfigFields \ fields : last'.config[f] = last.config[f]

\* C25 as stated: each builder leaves every field it is not named for at its
\* previous value: with_compression all but compression_algorithm,
\* with_bloom_filter all but enable_bloom_filter and bloom_fpr, and with_ttl
\* every field, none of them being about expiry, klog_value_threshold among them
C25_BuildersChangeOnlyTheirFields ==
    [][/\ Keeps("with_compression", {"compression_algorithm"})
       /\ Keeps("with_bloom_filter", {"enable_bloom_filter", "bloom_fpr"})
       /\ Keeps("with_ttl", {})]_vars

\* C24 as stated: every buffered write that put_with_ttl(.., ttl) issued was
\* handed to the engine with a ttl equal to the caller's, which is not
\* negative, and every write that put issued with ttl 0
C24_TtlHandedOverUnchanged ==
    \A t \in Txns : \A i \in 1 .. Len(etxn[t].ws) :
        /\ etxn[t].ws[i].api.op = "put_with_ttl"
               => etxn[t].ws[i].ttl = etxn[t].ws[i].api.ttl /\ etxn[t].ws[i].ttl >= 0
        /\ etxn[t].ws[i].api.op = "put" => etxn[t].ws[i].ttl = 0

\* the savepoints of a stack that lie above the one called name, which are the
\* ones created after it
After(sps, name) == {sps[i].name : i \in Position(sps, name) + 1 .. Len(sps)}

\* the savepoints of a stack below the one called name, oldest first
Before(sps, name) == SubSeq(sps, 1, Position(sps, name) - 1)

\* a new savepoint goes on top of the stack
SavepointGoesOnTop ==
    \A t \in Txns :
        Step("savepoint", t) /\ last'.ret = "Ok"
            => /\ Len(etxn'[t].sps) = Len(etxn[t].sps) + 1
               /\ SubSeq(etxn'[t].sps, 1, Len(etxn[t].sps)) = etxn[t].sps
               /\ etxn'[t].sps[Len(etxn'[t].sps)].name = last'.name
               /\ etxn'[t].sps[Len(etxn'[t].sps)].at = etxn[t].issued

\* rollback_to_savepoint and release_savepoint succeed for exactly the names
\* on the stack
OnStackIffOk ==
    \A t \in Txns :
        Step("rollback_to_savepoint", t) \/ Step("release_savepoint", t)
            => (last'.ret = "Ok") = (last'.name \in SavepointNamesOf(etxn[t].sps))

\* C21: savepoints stack in the order they are created; a successful
\* rollback_to_savepoint(A) takes every savepoint above A off the stack and
\* leaves those below A as they were; rollback_to_savepoint and
\* release_savepoint fail for every name not on the stack, so for each one
\* taken off, and succeed for every name on it; release_savepoint removes its
\* marker only, and what a later rollback_to_savepoint keeps is decided by the
\* number of writes issued when its own savepoint was created
C21_RollbackToPopsLater ==
    /\ [][SavepointGoesOnTop]_vars
    /\ [][OnStackIffOk]_vars
    /\ [][\A t \in Txns :
              Step("rollback_to_savepoint", t) /\ last'.ret = "Ok"
                  => /\ After(etxn[t].sps, last'.name)
                            \cap SavepointNamesOf(etxn'[t].sps) = {}
                     /\ Before(etxn'[t].sps, last'.name) = Before(etxn[t].sps, last'.name)
                     /\ Len(etxn'[t].sps) <= Position(etxn[t].sps, last'.name)
                     /\ etxn'[t].ws =
                            IssuedUpTo(etxn[t].ws,
                                       etxn[t].sps[Position(etxn[t].sps, last'.name)].at)]_vars
    /\ [][\A t \in Txns :
              Step("release_savepoint", t) /\ last'.ret = "Ok"
                  => /\ etxn'[t].ws = etxn[t].ws
                     /\ etxn'[t].sps = Without(etxn[t].sps, last'.name)]_vars

\* a rollback to the outer of two savepoints took the inner one off the stack
\* and discarded a write, and the transaction still holds an earlier write
C21_Witness ==
    /\ last.op = "rollback_to_savepoint" /\ last.ret = "Ok"
    /\ last.popped >= 1
    /\ etxn[last.t].ws # <<>>
    /\ etxn[last.t].issued > Len(etxn[last.t].ws)

\* what Transaction::get returns to transaction t for key in cf when the engine
\* is in state E; for a handle not yet begun, what a transaction begun now reads
GetIn(E, t, cf, key) ==
    get_result(tidesdb_txn_get(E, t, cf, key).code, tidesdb_txn_get(E, t, cf, key).value)

\* the versions stored for a column family in state E
StoredIn(E, cf) == E.mem[cf] \cup E.l0[cf] \cup E.l1[cf]

\* the state of the engine after the step
EngineAfter == Engine'

\* C22: a flush or a compaction leaves the result of every get as it was, for
\* every open transaction and for one begun afterwards, and for every key; a
\* flush discards no version; a compaction never discards a version whose value
\* an open transaction reads, and discards a tombstone or an expired version
\* that an open transaction reads as absent only together with every version
\* it shadows
C22_FlushAndCompactKeepReads ==
    [][last'.op \in {"flush", "compact"} =>
           /\ \A t \in Txns, key \in Keys :
                  GetIn(EngineAfter, t, last'.cf, key) = GetIn(Engine, t, last'.cf, key)
           /\ last'.op = "flush" => StoredIn(EngineAfter, last'.cf) = StoredIn(Engine, last'.cf)
           /\ StoredIn(EngineAfter, last'.cf) \subseteq StoredIn(Engine, last'.cf)
           /\ \A r \in StoredIn(Engine, last'.cf) \ StoredIn(EngineAfter, last'.cf) :
                  \A t \in Txns :
                      etxn[t].state = "active"
                          /\ r \in Lookup(Engine, last'.cf, r.key, ReadSnapshot(Engine, t))
                          => /\ r.val = TOMBSTONE \/ Expired(Engine, r)
                             /\ \A q \in StoredIn(EngineAfter, last'.cf) :
                                    q.key = r.key => q.seq > r.seq
           /\ <<history, seq, etxn, handle>>' = <<history, seq, etxn, handle>>]_vars

\* a compaction has kept, for an open Repeatable-Read transaction, the version
\* of a key that a newer committed version shadows
C22_Witness ==
    /\ last.op = "compact"
    /\ \E t \in Txns :
           /\ Live(t) /\ handle[t].isolation = TDB_ISOLATION_REPEATABLE_READ
           /\ \E r, q \in l1[last.cf] :
                  /\ r.key = q.key /\ r.seq <= etxn[t].snap /\ etxn[t].snap < q.seq
                  /\ r.val # q.val

\* C23 as stated: the database is closed at most once, and once it is closed no
\* call is issued to the engine through a transaction handle: no put, get,
\* delete, savepoint call, commit or rollback, and no tidesdb_txn_free
C23_NoCallAfterClose ==
    /\ [](closed <= 1)
    /\ [][~Open => /\ last'.op \notin TxnOps \cup {"drop"}
                   /\ freed' = freed]_vars

====
